---- MODULE Spec2Model ----
(***************************************************************************)
(* State-transition pipeline of go-ethereum: StateProcessor.Process,       *)
(* ApplyTransaction (core/state_processor.go) and StateTransition,         *)
(* IntrinsicGas (core/state_transition.go).                                *)
(*                                                                         *)
(* uint64 quantities are modelled as WordBits-bit unsigned integers with   *)
(* the same wrap-around arithmetic; big.Int quantities (balances, gas      *)
(* price, value) are unbounded integers.                                   *)
(***************************************************************************)
EXTENDS Integers, Sequences, FiniteSets, TLC

\* ------------------------------------------------------------------ bounds
\* width of the machine word that stands for uint64
WordBits == 16
\* largest number of transactions in a block
MaxTxs == 2

\* ------------------------------------------------------- program constants
\* math.MaxUint64 at the modelled word width
MaxUint64 == 2^WordBits - 1
\* params.TxGas
TxGas == 21000
\* params.TxGasContractCreation
TxGasContractCreation == 53000
\* params.TxDataZeroGas
TxDataZeroGas == 4
\* params.TxDataNonZeroGas
TxDataNonZeroGas == 68

\* uint64 wrap-around
U64(x) == x % (MaxUint64 + 1)

\* error values
NoErr == "nil"
ErrNonceTooHigh == "ErrNonceTooHigh"
ErrNonceTooLow == "ErrNonceTooLow"
errInsufficientBalanceForGas == "errInsufficientBalanceForGas"
ErrGasLimitReached == "ErrGasLimitReached"
ErrOutOfGas == "ErrOutOfGas"
ErrInsufficientBalance == "ErrInsufficientBalance"
ErrExecutionReverted == "ErrExecutionReverted"
ErrInvalidSig == "ErrInvalidSig"

\* a nil *common.Address (Message.To() of a contract creation)
NilAddr == "nil"
\* common.Address{} : the zero value of Receipt.ContractAddress
ZeroAddress == <<"0x0", 0>>

VARIABLES
    \* inputs of Process: the block header and the chain configuration
    blockGasLimit, homestead, coinbase, nTxs,
    \* statedb
    balance, nonce, refund, txLogs,
    \* Process locals
    gp, i, receipts, allLogs, usedGas, finalized,
    \* ApplyTransaction / StateTransition
    msg, st_gas, st_initialGas, vmerr, tdb, err,
    \* what Process returned
    ret,
    \* control position
    pc,
    \* IntrinsicGas taken alone: arguments and result
    ig_data, ig_cc, ig_hs, ig_ret, ig_pc,
    \* observation only: the transactions ranged over so far, the balances,
    \* the GasPool and the nonces as they were when the transaction at hand
    \* began, and the number of times it has entered the EVM
    block, bal0, gp0, nonce0, evmCalls

blockVars == <<blockGasLimit, homestead, coinbase, nTxs>>
dbVars == <<balance, nonce, refund, txLogs>>
procVars == <<gp, i, receipts, allLogs, usedGas, finalized>>
stVars == <<msg, st_gas, st_initialGas, vmerr, tdb, err>>
igVars == <<ig_data, ig_cc, ig_hs, ig_ret, ig_pc>>
snapVars == <<bal0, gp0, nonce0>>
obsVars == <<block, snapVars, evmCalls>>
vars == <<blockVars, dbVars, procVars, stVars, ret, pc, igVars, obsVars>>

\* ------------------------------------------------------------ IntrinsicGas
\* the loop "for _, byt := range data { if byt != 0 { nz++ } }"
CountNonZero(data) == Cardinality({k \in DOMAIN data : data[k] # 0})

\* IntrinsicGas without the overflow check of the zero-byte term
IntrinsicGas_NoZeroCheck(data, contractCreation, hs) ==
    LET gas0 == IF contractCreation /\ hs THEN TxGasContractCreation ELSE TxGas
    IN  IF Len(data) > 0
        THEN LET nz == CountNonZero(data)
             IN  IF (MaxUint64 - gas0) \div TxDataNonZeroGas < nz
                 THEN [gas |-> 0, err |-> ErrOutOfGas]
                 ELSE LET gas1 == U64(gas0 + U64(nz * TxDataNonZeroGas))
                          z == U64(Len(data) - nz)
                      IN  [gas |-> U64(gas1 + U64(z * TxDataZeroGas)),
                           err |-> NoErr]
        ELSE [gas |-> gas0, err |-> NoErr]

\* IntrinsicGas charging the creation constant before homestead as well
IntrinsicGas_IgnoresFork(data, contractCreation, hs) ==
    LET gas0 == IF contractCreation THEN TxGasContractCreation ELSE TxGas
    IN  IF Len(data) > 0
        THEN LET nz == CountNonZero(data)
             IN  IF (MaxUint64 - gas0) \div TxDataNonZeroGas < nz
                 THEN [gas |-> 0, err |-> ErrOutOfGas]
                 ELSE LET gas1 == U64(gas0 + U64(nz * TxDataNonZeroGas))
                          z == U64(Len(data) - nz)
                      IN  IF (MaxUint64 - gas1) \div TxDataZeroGas < z
                          THEN [gas |-> 0, err |-> ErrOutOfGas]
                          ELSE [gas |-> U64(gas1 + U64(z * TxDataZeroGas)),
                                err |-> NoErr]
        ELSE [gas |-> gas0, err |-> NoErr]

\* IntrinsicGas(data, contractCreation, homestead) (uint64, error)
IntrinsicGas(data, contractCreation, hs) ==
    LET gas0 == IF contractCreation /\ hs THEN TxGasContractCreation ELSE TxGas
    IN  IF Len(data) > 0
        THEN LET nz == CountNonZero(data)
             IN  IF (MaxUint64 - gas0) \div TxDataNonZeroGas < nz
                 THEN [gas |-> 0, err |-> ErrOutOfGas]
                 ELSE LET gas1 == U64(gas0 + U64(nz * TxDataNonZeroGas))
                          z == U64(Len(data) - nz)
                      IN  IF (MaxUint64 - gas1) \div TxDataZeroGas < z
                          THEN [gas |-> 0, err |-> ErrOutOfGas]
                          ELSE [gas |-> U64(gas1 + U64(z * TxDataZeroGas)),
                                err |-> NoErr]
        ELSE [gas |-> gas0, err |-> NoErr]

\* ----------------------------------------------------------------- GasPool
\* (gp *GasPool) AddGas(amount): the capacity grows, clamped at the maximum
AddGas(pool, amount) ==
    IF pool + amount > MaxUint64 THEN MaxUint64 ELSE pool + amount

\* (gp *GasPool) SubGas(amount): GasLimitReached when amount exceeds the
\* capacity, which is then left as it was
SubGas(pool, amount) ==
    IF pool < amount
    THEN [pool |-> pool, err |-> ErrGasLimitReached]
    ELSE [pool |-> pool - amount, err |-> NoErr]

\* ------------------------------------------------------------------ inputs
Addrs == {"alice", "bob", "miner", "contract"}
BlockGasLimits == {21000, 30000, 65000}
GasLimits == {20999, 21000, 60001}
GasPrices == {1, 2}
Values == {0, 7}
\* a payload whose non-zero bytes alone cost more than a word holds
OverflowPayload ==
    [k \in 1..((MaxUint64 - TxGas) \div TxDataNonZeroGas + 1) |-> 255]
Payloads == {<< >>, <<1, 0>>, OverflowPayload}
\* <<nonce, checkNonce>> of a message: tx.AsMessage makes the message of a
\* block transaction, and every transaction must match the nonce of its
\* sender
NonceModes == {<<0, TRUE>>, <<1, TRUE>>}
InitBalances == {60005, 1000000}
InitNonces == {0}

\* the transactions a block is made of (types.Transaction, seen as Message):
\* every combination of the values above, less those that only repeat a case
\* (a value goes with the lower gas price and an empty payload; a gas limit
\* below the intrinsic gas goes with no value, no payload and the lower gas
\* price; the overflowing payload goes with the lower gas price, the higher
\* gas limit and nonce 0; a contract creation goes with no value and the
\* lower gas price)
Txs ==
    { tx \in [from : {"alice"}, to : {NilAddr, "bob"}, gas : GasLimits,
              gasPrice : GasPrices, value : Values, nonce : {0, 1},
              checkNonce : BOOLEAN, data : Payloads] :
        /\ <<tx.nonce, tx.checkNonce>> \in NonceModes
        /\ (tx.data = OverflowPayload =>
               tx.gasPrice = 1 /\ tx.gas > TxGas /\ tx.nonce = 0)
        /\ (tx.value # 0 => tx.gasPrice = 1 /\ tx.data = << >>)
        /\ (tx.to = NilAddr => tx.value = 0 /\ tx.gasPrice = 1)
        /\ (tx.gas < TxGas =>
               tx.value = 0 /\ tx.data = << >> /\ tx.gasPrice = 1) }

\* the transaction that stands for those whose signer cannot be resolved:
\* AsMessage fails before anything else of the transaction is read
UnsignedTx ==
    [from |-> "alice", to |-> "bob", gas |-> 21000, gasPrice |-> 1,
     value |-> 0, nonce |-> 0, checkNonce |-> TRUE, data |-> << >>]

NoMsg ==
    [from |-> "alice", to |-> NilAddr, gas |-> 0, gasPrice |-> 0, value |-> 0,
     nonce |-> 0, checkNonce |-> FALSE, data |-> << >>]

\* the result tuple of TransitionDb: (usedGas, failed); err is kept apart
NoResult == [usedGas |-> 0, failed |-> FALSE]
\* Process has not returned
NoRet == [returned |-> FALSE, receipts |-> << >>, logs |-> << >>,
          usedGas |-> 0, err |-> NoErr]

\* what the EVM may hand back: <<gas left of the gas g it was given, refund
\* counter>>
ExecOutcomes(g) ==
    {<<0, 0>>, <<g \div 3, 100>>, <<g \div 3, 40000>>, <<g, 40000>>}

\* tx.Hash()
TxHash(tx) == <<"hash", tx>>

\* crypto.CreateAddress(origin, nonce)
CreateAddress(origin, n) == <<origin, n>>

\* (st *StateTransition) gasUsed()
gasUsed(initialGas, gas) == U64(initialGas - gas)

Min(a, b) == IF a < b THEN a ELSE b

\* -------------------------------------------------------------------- Init
IGIdle ==
    /\ ig_data = << >>
    /\ ig_cc = FALSE
    /\ ig_hs = FALSE
    /\ ig_ret = [gas |-> 0, err |-> NoErr]
    /\ ig_pc = "idle"

Init ==
    /\ blockGasLimit \in BlockGasLimits
    /\ homestead \in BOOLEAN
    /\ coinbase \in {"miner", "alice"}
    /\ nTxs \in 0..MaxTxs
    /\ \E b \in InitBalances :
          balance = [a \in Addrs |-> IF a = "alice" THEN b ELSE 0]
    /\ \E n \in InitNonces :
          nonce = [a \in Addrs |-> IF a = "alice" THEN n ELSE 0]
    /\ refund = 0
    /\ txLogs = << >>
    /\ gp = 0
    /\ i = 0
    /\ receipts = << >>
    /\ allLogs = << >>
    /\ usedGas = 0
    /\ finalized = 0
    /\ msg = NoMsg
    /\ st_gas = 0
    /\ st_initialGas = 0
    /\ vmerr = NoErr
    /\ tdb = NoResult
    /\ err = NoErr
    /\ ret = NoRet
    /\ pc = "Process"
    /\ IGIdle
    /\ block = << >>
    /\ bal0 = balance
    /\ gp0 = gp
    /\ nonce0 = nonce
    /\ evmCalls = 0

\* ----------------------------------------------------------------- Process
\* Process, lines 68-75: gp = new(GasPool).AddGas(block.GasLimit()).
\* The one-off DAO fork migration of lines 78-80 is left out.
ProcessBegin ==
    /\ pc = "Process"
    /\ gp' = AddGas(0, blockGasLimit)
    /\ gp0' = gp'
    /\ pc' = "loop"
    /\ UNCHANGED <<blockVars, dbVars, i, receipts, allLogs, usedGas, finalized,
                   stVars, ret, igVars, block, bal0, nonce0, evmCalls>>

\* one iteration of the loop of Process enters ApplyTransaction:
\* statedb.Prepare, tx.AsMessage (which fails when the signer cannot be
\* resolved), NewEVM, NewStateTransition. The message is what AsMessage
\* returns: line 114 binds it to sg, lines 122-178 read it as msg.
ApplyTransaction(tx, sigOK) ==
    /\ pc = "loop"
    /\ i < nTxs
    /\ block' = Append(block, tx)
    /\ txLogs' = << >>
    /\ IF sigOK
       THEN /\ msg' = tx
            /\ st_gas' = 0
            /\ st_initialGas' = 0
            /\ vmerr' = NoErr
            /\ tdb' = NoResult
            /\ err' = NoErr
            /\ pc' = "preCheck"
       ELSE /\ err' = ErrInvalidSig
            /\ pc' = "reject"
            /\ UNCHANGED <<msg, st_gas, st_initialGas, vmerr, tdb>>
    /\ UNCHANGED <<blockVars, balance, nonce, refund, procVars, ret, igVars,
                   snapVars, evmCalls>>

\* preCheck with the two nonce errors exchanged
preCheck_Swapped ==
    /\ pc = "preCheck"
    /\ IF msg.checkNonce /\ nonce[msg.from] < msg.nonce
       THEN err' = ErrNonceTooLow /\ pc' = "reject"
       ELSE IF msg.checkNonce /\ nonce[msg.from] > msg.nonce
            THEN err' = ErrNonceTooHigh /\ pc' = "reject"
            ELSE err' = NoErr /\ pc' = "buyGas"
    /\ UNCHANGED <<blockVars, dbVars, procVars, msg, st_gas, st_initialGas,
                   vmerr, tdb, ret, igVars, obsVars>>

\* preCheck, lines 196-206: the nonce check
preCheck ==
    /\ pc = "preCheck"
    /\ IF msg.checkNonce /\ nonce[msg.from] < msg.nonce
       THEN err' = ErrNonceTooHigh /\ pc' = "reject"
       ELSE IF msg.checkNonce /\ nonce[msg.from] > msg.nonce
            THEN err' = ErrNonceTooLow /\ pc' = "reject"
            ELSE err' = NoErr /\ pc' = "buyGas"
    /\ UNCHANGED <<blockVars, dbVars, procVars, msg, st_gas, st_initialGas,
                   vmerr, tdb, ret, igVars, obsVars>>

\* buyGas handing over to the dispatch, the intrinsic gas left out
buyGas_SkipsIntrinsic ==
    /\ pc = "buyGas"
    /\ LET mgval == msg.gas * msg.gasPrice
           sub == SubGas(gp, msg.gas)
       IN  IF balance[msg.from] < mgval
           THEN /\ err' = errInsufficientBalanceForGas
                /\ pc' = "reject"
                /\ UNCHANGED <<gp, st_gas, st_initialGas, balance>>
           ELSE IF sub.err # NoErr
                THEN /\ err' = sub.err
                     /\ pc' = "reject"
                     /\ UNCHANGED <<gp, st_gas, st_initialGas, balance>>
                ELSE /\ gp' = sub.pool
                     /\ st_gas' = U64(st_gas + msg.gas)
                     /\ st_initialGas' = msg.gas
                     /\ balance' = [balance EXCEPT ![msg.from] = @ - mgval]
                     /\ err' = NoErr
                     /\ pc' = "dispatch"
    /\ UNCHANGED <<blockVars, nonce, refund, txLogs, i, receipts, allLogs,
                   usedGas, finalized, msg, vmerr, tdb, ret, igVars, obsVars>>

\* buyGas looking at the pool before it looks at the balance, the pool left
\* alone until both checks have passed
buyGas_PoolCheckFirst ==
    /\ pc = "buyGas"
    /\ LET mgval == msg.gas * msg.gasPrice
           sub == SubGas(gp, msg.gas)
       IN  IF sub.err # NoErr
           THEN /\ err' = sub.err
                /\ pc' = "reject"
                /\ UNCHANGED <<gp, st_gas, st_initialGas, balance>>
           ELSE IF balance[msg.from] < mgval
                THEN /\ err' = errInsufficientBalanceForGas
                     /\ pc' = "reject"
                     /\ UNCHANGED <<gp, st_gas, st_initialGas, balance>>
                ELSE /\ gp' = sub.pool
                     /\ st_gas' = U64(st_gas + msg.gas)
                     /\ st_initialGas' = msg.gas
                     /\ balance' = [balance EXCEPT ![msg.from] = @ - mgval]
                     /\ err' = NoErr
                     /\ pc' = "intrinsic"
    /\ UNCHANGED <<blockVars, nonce, refund, txLogs, i, receipts, allLogs,
                   usedGas, finalized, msg, vmerr, tdb, ret, igVars, obsVars>>

\* buyGas taking the gas out of the pool before it looks at the balance
buyGas_SubGasFirst ==
    /\ pc = "buyGas"
    /\ LET mgval == msg.gas * msg.gasPrice
           sub == SubGas(gp, msg.gas)
       IN  IF sub.err # NoErr
           THEN /\ err' = sub.err
                /\ pc' = "reject"
                /\ UNCHANGED <<gp, st_gas, st_initialGas, balance>>
           ELSE IF balance[msg.from] < mgval
                THEN /\ gp' = sub.pool
                     /\ err' = errInsufficientBalanceForGas
                     /\ pc' = "reject"
                     /\ UNCHANGED <<st_gas, st_initialGas, balance>>
                ELSE /\ gp' = sub.pool
                     /\ st_gas' = U64(st_gas + msg.gas)
                     /\ st_initialGas' = msg.gas
                     /\ balance' = [balance EXCEPT ![msg.from] = @ - mgval]
                     /\ err' = NoErr
                     /\ pc' = "intrinsic"
    /\ UNCHANGED <<blockVars, nonce, refund, txLogs, i, receipts, allLogs,
                   usedGas, finalized, msg, vmerr, tdb, ret, igVars, obsVars>>

\* buyGas, lines 166-194
buyGas ==
    /\ pc = "buyGas"
    /\ LET mgval == msg.gas * msg.gasPrice
           sub == SubGas(gp, msg.gas)
       IN  IF balance[msg.from] < mgval
           THEN /\ err' = errInsufficientBalanceForGas
                /\ pc' = "reject"
                /\ UNCHANGED <<gp, st_gas, st_initialGas, balance>>
           ELSE IF sub.err # NoErr
                THEN /\ err' = sub.err
                     /\ pc' = "reject"
                     /\ UNCHANGED <<gp, st_gas, st_initialGas, balance>>
                ELSE /\ gp' = sub.pool
                     /\ st_gas' = U64(st_gas + msg.gas)
                     /\ st_initialGas' = msg.gas
                     /\ balance' = [balance EXCEPT ![msg.from] = @ - mgval]
                     /\ err' = NoErr
                     /\ pc' = "intrinsic"
    /\ UNCHANGED <<blockVars, nonce, refund, txLogs, i, receipts, allLogs,
                   usedGas, finalized, msg, vmerr, tdb, ret, igVars, obsVars>>

\* TransitionDb going on with no gas left when the gas does not cover the
\* intrinsic gas
payIntrinsicGas_Clamps ==
    /\ pc = "intrinsic"
    /\ LET ig == IntrinsicGas(msg.data, msg.to = NilAddr, homestead)
       IN  IF ig.err # NoErr
           THEN /\ err' = ig.err
                /\ tdb' = [usedGas |-> 0, failed |-> FALSE]
                /\ pc' = "reject"
                /\ UNCHANGED st_gas
           ELSE /\ st_gas' = IF st_gas < ig.gas THEN 0 ELSE st_gas - ig.gas
                /\ pc' = "dispatch"
                /\ UNCHANGED <<err, tdb>>
    /\ UNCHANGED <<blockVars, dbVars, procVars, msg, st_initialGas, vmerr,
                   ret, igVars, obsVars>>

\* TransitionDb, lines 226-243: IntrinsicGas, then useGas (lines 155-163)
payIntrinsicGas ==
    /\ pc = "intrinsic"
    /\ LET ig == IntrinsicGas(msg.data, msg.to = NilAddr, homestead)
       IN  IF ig.err # NoErr
           THEN /\ err' = ig.err
                /\ tdb' = [usedGas |-> 0, failed |-> FALSE]
                /\ pc' = "reject"
                /\ UNCHANGED st_gas
           ELSE IF st_gas < ig.gas
                THEN /\ err' = ErrOutOfGas
                     /\ tdb' = [usedGas |-> 0, failed |-> FALSE]
                     /\ pc' = "reject"
                     /\ UNCHANGED st_gas
                ELSE /\ st_gas' = st_gas - ig.gas
                     /\ pc' = "dispatch"
                     /\ UNCHANGED <<err, tdb>>
    /\ UNCHANGED <<blockVars, dbVars, procVars, msg, st_initialGas, vmerr,
                   ret, igVars, obsVars>>

\* the dispatch of a call that leaves the nonce of the sender alone
dispatch_NoNonce ==
    /\ pc = "dispatch"
    /\ pc' = IF msg.to = NilAddr THEN "create" ELSE "call"
    /\ UNCHANGED <<blockVars, dbVars, procVars, stVars, ret, igVars, obsVars>>

\* TransitionDb, lines 254-260: a creation goes to evm.Create; a call first
\* increments the sender's nonce
dispatch ==
    /\ pc = "dispatch"
    /\ IF msg.to = NilAddr
       THEN /\ pc' = "create"
            /\ UNCHANGED nonce
       ELSE /\ nonce' = [nonce EXCEPT ![msg.from] = U64(@ + 1)]
            /\ pc' = "call"
    /\ UNCHANGED <<blockVars, balance, refund, txLogs, procVars, stVars, ret,
                   igVars, obsVars>>

\* the EVM running a message: without the balance for the value it reports
\* ErrInsufficientBalance and keeps the gas; otherwise it hands back some of
\* its gas, leaves a refund counter, and either succeeds (the value is
\* transferred, a log is emitted) or fails with another error
EvmRun(recipient, bumpNonce) ==
    IF balance[msg.from] < msg.value
    THEN /\ vmerr' = ErrInsufficientBalance
         /\ UNCHANGED <<st_gas, balance, nonce, refund, txLogs>>
    ELSE /\ \E o \in ExecOutcomes(st_gas) : st_gas' = o[1] /\ refund' = o[2]
         /\ nonce' = [nonce EXCEPT ![msg.from] =
                         IF bumpNonce THEN U64(@ + 1) ELSE @]
         /\ \/ /\ vmerr' = NoErr
               /\ balance' = [balance EXCEPT ![msg.from] = @ - msg.value,
                                             ![recipient] = @ + msg.value]
               /\ txLogs' = <<i>>
            \/ /\ vmerr' = ErrExecutionReverted
               /\ UNCHANGED <<balance, txLogs>>

\* TransitionDb, line 256: evm.Create(sender, st.data, st.gas, st.value)
evmCreate ==
    /\ pc = "create"
    /\ \E bump \in BOOLEAN : EvmRun("contract", bump)
    /\ evmCalls' = evmCalls + 1
    /\ pc' = "executed"
    /\ UNCHANGED <<blockVars, procVars, msg, st_initialGas, tdb, err, ret,
                   igVars, block, snapVars>>

\* TransitionDb, line 261: evm.Call(sender, st.to(), st.data, st.gas, st.value)
evmCall ==
    /\ pc = "call"
    /\ EvmRun(msg.to, FALSE)
    /\ evmCalls' = evmCalls + 1
    /\ pc' = "executed"
    /\ UNCHANGED <<blockVars, procVars, msg, st_initialGas, tdb, err, ret,
                   igVars, block, snapVars>>

\* TransitionDb handing the remaining gas back to the sender and the pool
\* before it returns the error
vmInsufficientBalance_ReturnsGas ==
    /\ pc = "executed"
    /\ vmerr = ErrInsufficientBalance
    /\ tdb' = [usedGas |-> 0, failed |-> FALSE]
    /\ err' = vmerr
    /\ balance' = [balance EXCEPT ![msg.from] = @ + st_gas * msg.gasPrice]
    /\ gp' = AddGas(gp, st_gas)
    /\ pc' = "reject"
    /\ UNCHANGED <<blockVars, nonce, refund, txLogs, i, receipts, allLogs,
                   usedGas, finalized, msg, st_gas, st_initialGas, vmerr,
                   ret, igVars, obsVars>>

\* TransitionDb returning every vm error as err
vmInsufficientBalance_AnyError ==
    /\ pc = "executed"
    /\ vmerr # NoErr
    /\ tdb' = [usedGas |-> 0, failed |-> FALSE]
    /\ err' = vmerr
    /\ pc' = "reject"
    /\ UNCHANGED <<blockVars, dbVars, procVars, msg, st_gas, st_initialGas,
                   vmerr, ret, igVars, obsVars>>

\* TransitionDb reporting the gas used and a failure along with the error
vmInsufficientBalance_ReportsGas ==
    /\ pc = "executed"
    /\ vmerr = ErrInsufficientBalance
    /\ tdb' = [usedGas |-> U64(st_initialGas - st_gas), failed |-> TRUE]
    /\ err' = vmerr
    /\ pc' = "reject"
    /\ UNCHANGED <<blockVars, dbVars, procVars, msg, st_gas, st_initialGas,
                   vmerr, ret, igVars, obsVars>>

\* TransitionDb, lines 265-276: insufficient balance is the one vm error
\* that is returned as err
vmInsufficientBalance ==
    /\ pc = "executed"
    /\ vmerr = ErrInsufficientBalance
    /\ tdb' = [usedGas |-> 0, failed |-> FALSE]
    /\ err' = vmerr
    /\ pc' = "reject"
    /\ UNCHANGED <<blockVars, dbVars, procVars, msg, st_gas, st_initialGas,
                   vmerr, ret, igVars, obsVars>>

\* the refund without the cap at half of the gas used
Refund_NoHalfCap(initialGas, gas, counter) ==
    counter

\* the refund without the cap at the refund counter
Refund_NoCounterCap(initialGas, gas, counter) ==
    U64(initialGas - gas) \div 2

\* the refund of refundGas, lines 290-297
Refund(initialGas, gas, counter) ==
    LET half == gasUsed(initialGas, gas) \div 2
    IN  IF half > counter THEN counter ELSE half

\* refundGas paying the sender for the gas left before the refund was added
refundGas_DropsRefund ==
    /\ pc = "executed"
    /\ vmerr # ErrInsufficientBalance
    /\ LET gas1 == U64(st_gas + Refund(st_initialGas, st_gas, refund))
       IN  /\ st_gas' = gas1
           /\ balance' = [balance EXCEPT
                             ![msg.from] = @ + st_gas * msg.gasPrice]
           /\ gp' = AddGas(gp, gas1)
    /\ pc' = "payFee"
    /\ UNCHANGED <<blockVars, nonce, refund, txLogs, i, receipts, allLogs,
                   usedGas, finalized, msg, st_initialGas, vmerr, tdb, err,
                   ret, igVars, obsVars>>

\* refundGas that does not hand the remaining gas back to the pool
refundGas_SkipsPool ==
    /\ pc = "executed"
    /\ vmerr # ErrInsufficientBalance
    /\ LET gas1 == U64(st_gas + Refund(st_initialGas, st_gas, refund))
       IN  /\ st_gas' = gas1
           /\ balance' = [balance EXCEPT
                             ![msg.from] = @ + gas1 * msg.gasPrice]
    /\ pc' = "payFee"
    /\ UNCHANGED <<blockVars, nonce, refund, txLogs, gp, i, receipts, allLogs,
                   usedGas, finalized, msg, st_initialGas, vmerr, tdb, err,
                   ret, igVars, obsVars>>

\* TransitionDb, line 279: refundGas, lines 287-312
refundGas ==
    /\ pc = "executed"
    /\ vmerr # ErrInsufficientBalance
    /\ LET gas1 == U64(st_gas + Refund(st_initialGas, st_gas, refund))
       IN  /\ st_gas' = gas1
           /\ balance' = [balance EXCEPT
                             ![msg.from] = @ + gas1 * msg.gasPrice]
           /\ gp' = AddGas(gp, gas1)
    /\ pc' = "payFee"
    /\ UNCHANGED <<blockVars, nonce, refund, txLogs, i, receipts, allLogs,
                   usedGas, finalized, msg, st_initialGas, vmerr, tdb, err,
                   ret, igVars, obsVars>>

\* the fee taken on the whole gas limit instead of the gas used
payFee_OnGasLimit ==
    /\ pc = "payFee"
    /\ balance' = [balance EXCEPT ![coinbase] =
                      @ + st_initialGas * msg.gasPrice]
    /\ tdb' = [usedGas |-> gasUsed(st_initialGas, st_gas),
               failed |-> vmerr # NoErr]
    /\ pc' = "receipt"
    /\ UNCHANGED <<blockVars, nonce, refund, txLogs, procVars, msg, st_gas,
                   st_initialGas, vmerr, err, ret, igVars, obsVars>>

\* TransitionDb, lines 281-283: the fee of the coinbase, and the return
payFee ==
    /\ pc = "payFee"
    /\ balance' = [balance EXCEPT ![coinbase] =
                      @ + gasUsed(st_initialGas, st_gas) * msg.gasPrice]
    /\ tdb' = [usedGas |-> gasUsed(st_initialGas, st_gas),
               failed |-> vmerr # NoErr]
    /\ pc' = "receipt"
    /\ UNCHANGED <<blockVars, nonce, refund, txLogs, procVars, msg, st_gas,
                   st_initialGas, vmerr, err, ret, igVars, obsVars>>

\* the receipt carrying the gas of its own transaction as the cumulative gas
makeReceipt_NotCumulative ==
    /\ pc = "receipt"
    /\ refund' = 0
    /\ usedGas' = U64(usedGas + tdb.usedGas)
    /\ receipts' = Append(receipts,
          [txHash |-> TxHash(msg),
           failed |-> tdb.failed,
           cumulativeGasUsed |-> tdb.usedGas,
           gasUsed |-> tdb.usedGas,
           contractAddress |-> IF msg.to = NilAddr
                               THEN CreateAddress(msg.from, msg.nonce)
                               ELSE ZeroAddress,
           logs |-> txLogs])
    /\ allLogs' = allLogs \o txLogs
    /\ i' = i + 1
    /\ msg' = NoMsg
    /\ st_gas' = 0
    /\ st_initialGas' = 0
    /\ vmerr' = NoErr
    /\ tdb' = NoResult
    /\ bal0' = balance
    /\ gp0' = gp
    /\ nonce0' = nonce
    /\ evmCalls' = 0
    /\ pc' = "loop"
    /\ UNCHANGED <<blockVars, balance, nonce, txLogs, gp, finalized, err,
                   ret, igVars, block>>

\* the receipt taking its contract address from the account nonce of the
\* sender as it stands once the transaction has run
makeReceipt_AccountNonce ==
    /\ pc = "receipt"
    /\ refund' = 0
    /\ usedGas' = U64(usedGas + tdb.usedGas)
    /\ receipts' = Append(receipts,
          [txHash |-> TxHash(msg),
           failed |-> tdb.failed,
           cumulativeGasUsed |-> U64(usedGas + tdb.usedGas),
           gasUsed |-> tdb.usedGas,
           contractAddress |-> IF msg.to = NilAddr
                               THEN CreateAddress(msg.from, nonce[msg.from])
                               ELSE ZeroAddress,
           logs |-> txLogs])
    /\ allLogs' = allLogs \o txLogs
    /\ i' = i + 1
    /\ msg' = NoMsg
    /\ st_gas' = 0
    /\ st_initialGas' = 0
    /\ vmerr' = NoErr
    /\ tdb' = NoResult
    /\ bal0' = balance
    /\ gp0' = gp
    /\ nonce0' = nonce
    /\ evmCalls' = 0
    /\ pc' = "loop"
    /\ UNCHANGED <<blockVars, balance, nonce, txLogs, gp, finalized, err,
                   ret, igVars, block>>

\* ApplyTransaction, lines 159-185, and Process, lines 93-94: the statedb is
\* finalised (its refund counter cleared), the receipt is made and appended
makeReceipt ==
    /\ pc = "receipt"
    /\ refund' = 0
    /\ usedGas' = U64(usedGas + tdb.usedGas)
    /\ receipts' = Append(receipts,
          [txHash |-> TxHash(msg),
           failed |-> tdb.failed,
           cumulativeGasUsed |-> U64(usedGas + tdb.usedGas),
           gasUsed |-> tdb.usedGas,
           contractAddress |-> IF msg.to = NilAddr
                               THEN CreateAddress(msg.from, msg.nonce)
                               ELSE ZeroAddress,
           logs |-> txLogs])
    /\ allLogs' = allLogs \o txLogs
    /\ i' = i + 1
    \* the StateTransition of this transaction is gone
    /\ msg' = NoMsg
    /\ st_gas' = 0
    /\ st_initialGas' = 0
    /\ vmerr' = NoErr
    /\ tdb' = NoResult
    /\ bal0' = balance
    /\ gp0' = gp
    /\ nonce0' = nonce
    /\ evmCalls' = 0
    /\ pc' = "loop"
    /\ UNCHANGED <<blockVars, balance, nonce, txLogs, gp, finalized, err,
                   ret, igVars, block>>

\* Process returning what it had gathered along with the error
reject_KeepsReceipts ==
    /\ pc = "reject"
    /\ ret' = [returned |-> TRUE, receipts |-> receipts, logs |-> allLogs,
               usedGas |-> usedGas, err |-> err]
    /\ pc' = "done"
    /\ UNCHANGED <<blockVars, dbVars, procVars, stVars, igVars, obsVars>>

\* Process, lines 89-92: return nil, nil, 0, err
reject ==
    /\ pc = "reject"
    /\ ret' = [returned |-> TRUE, receipts |-> << >>, logs |-> << >>,
               usedGas |-> 0, err |-> err]
    /\ pc' = "done"
    /\ UNCHANGED <<blockVars, dbVars, procVars, stVars, igVars, obsVars>>

\* Process, lines 98-100: engine.Finalize, return receipts, allLogs, *usedGas
finalize ==
    /\ pc = "loop"
    /\ i = nTxs
    /\ finalized' = finalized + 1
    /\ ret' = [returned |-> TRUE, receipts |-> receipts, logs |-> allLogs,
               usedGas |-> usedGas, err |-> NoErr]
    /\ pc' = "done"
    /\ UNCHANGED <<blockVars, dbVars, gp, i, receipts, allLogs, usedGas,
                   stVars, igVars, obsVars>>

Next ==
    \/ ProcessBegin
    \/ \E tx \in Txs : ApplyTransaction(tx, TRUE)
    \/ ApplyTransaction(UnsignedTx, FALSE)
    \/ preCheck
    \/ buyGas
    \/ payIntrinsicGas
    \/ dispatch
    \/ evmCreate
    \/ evmCall
    \/ vmInsufficientBalance
    \/ refundGas
    \/ payFee
    \/ makeReceipt
    \/ reject
    \/ finalize

Spec == Init /\ [][Next]_vars

\* ------------------------------------------- IntrinsicGas taken on its own
\* a payload of nz non-zero bytes followed by z zero bytes
RunPayload(nz, z) == [k \in 1..(nz + z) |-> IF k <= nz THEN 255 ELSE 0]

\* every payload of at most three bytes over {0, 1, 255}
ShortPayloads ==
    UNION { [1..n -> {0, 1, 255}] : n \in 0..3 }

\* the largest byte count whose cost still fits above a running total
FitCount(total, rate) == (MaxUint64 - total) \div rate

\* byte counts at and around the points where a cost term stops fitting
IGNonZeroCounts ==
    {0, 1} \cup { FitCount(b, TxDataNonZeroGas) + d :
                     b \in {TxGas, TxGasContractCreation}, d \in {-1, 0, 1} }
IGZeroCounts ==
    (0..35) \cup { FitCount(b, TxDataZeroGas) + d :
                     b \in {TxGas, TxGasContractCreation},
                     d \in {-18, -17, -16, -1, 0, 1} }

IGPayloads ==
    ShortPayloads \cup
    { RunPayload(nz, z) : nz \in IGNonZeroCounts, z \in IGZeroCounts }

\* the block processor at rest
ProcessIdle ==
    /\ blockGasLimit = 21000
    /\ homestead = FALSE
    /\ coinbase = "miner"
    /\ nTxs = 0
    /\ balance = [a \in Addrs |-> 0]
    /\ nonce = [a \in Addrs |-> 0]
    /\ refund = 0
    /\ txLogs = << >>
    /\ gp = 0
    /\ i = 0
    /\ receipts = << >>
    /\ allLogs = << >>
    /\ usedGas = 0
    /\ finalized = 0
    /\ msg = NoMsg
    /\ st_gas = 0
    /\ st_initialGas = 0
    /\ vmerr = NoErr
    /\ tdb = NoResult
    /\ err = NoErr
    /\ ret = NoRet
    /\ pc = "idle"
    /\ block = << >>
    /\ bal0 = balance
    /\ gp0 = gp
    /\ nonce0 = nonce
    /\ evmCalls = 0

InitIG ==
    /\ ProcessIdle
    /\ ig_data \in IGPayloads
    /\ ig_cc \in BOOLEAN
    /\ ig_hs \in BOOLEAN
    /\ ig_ret = [gas |-> 0, err |-> NoErr]
    /\ ig_pc = "call"

\* a caller evaluates IntrinsicGas(data, contractCreation, homestead)
igCall ==
    /\ ig_pc = "call"
    /\ ig_ret' = IntrinsicGas(ig_data, ig_cc, ig_hs)
    /\ ig_pc' = "done"
    /\ UNCHANGED <<blockVars, dbVars, procVars, stVars, ret, pc,
                   ig_data, ig_cc, ig_hs, obsVars>>

NextIG == igCall

SpecIG == InitIG /\ [][NextIG]_vars

\* ================================================================== claims

\* payload statistics, counted apart from CountNonZero
IsZeroByte(b) == b = 0
IGZeros == Len(SelectSeq(ig_data, IsZeroByte))
IGNonZeros == Len(ig_data) - IGZeros
IGBase == IF ig_cc /\ ig_hs THEN TxGasContractCreation ELSE TxGas
IGAfterNonZero == IGBase + IGNonZeros * TxDataNonZeroGas
IGExactSum == IGAfterNonZero + IGZeros * TxDataZeroGas

RECURSIVE SumGasUsed(_)
SumGasUsed(rs) ==
    IF rs = << >> THEN 0 ELSE rs[1].gasUsed + SumGasUsed(Tail(rs))

\* C1: gas conservation over a block. Whenever Process stands between two
\* transactions, and when it has returned a fully successful block, the
\* GasPool holds blockGasLimit minus the sum of gasUsed over the receipts
\* produced so far, and that sum does not exceed blockGasLimit.
C1_GasConservation ==
    (pc = "loop" \/ (pc = "done" /\ ret.err = NoErr)) =>
        /\ Len(receipts) = i
        /\ gp = blockGasLimit - SumGasUsed(receipts)
        /\ SumGasUsed(receipts) <= blockGasLimit

\* scenario A: balance 1,000,000, gas price 1, gas limit 21,000, block gas
\* limit 21,000: one successful receipt of 21,000 gas, the pool is empty
C1_Witness ==
    /\ pc = "done"
    /\ ret.err = NoErr
    /\ blockGasLimit = 21000
    /\ coinbase = "miner"
    /\ Len(ret.receipts) = 1
    /\ ~ret.receipts[1].failed
    /\ ret.receipts[1].gasUsed = 21000
    /\ balance["alice"] = 1000000 - 21000
    /\ gp = 0

\* C2: block rejection on the first validity error. Once ApplyTransaction
\* has returned an error, the only step Process takes is to return no
\* receipts, no logs, gas used 0 and that error, with no further transaction
\* applied, no state touched and the finalizer not invoked; and after
\* Process has returned nothing happens.
C2_BlockRejection ==
    [][ /\ (pc = "reject" =>
              /\ err # NoErr
              /\ pc' = "done"
              /\ ret' = [returned |-> TRUE, receipts |-> << >>,
                         logs |-> << >>, usedGas |-> 0, err |-> err]
              /\ finalized = 0 /\ finalized' = 0
              /\ i < nTxs /\ i' = i /\ Len(receipts) = i
              /\ UNCHANGED <<dbVars, gp>>)
        /\ (pc = "done" => FALSE) ]_vars

\* scenario B: two transactions of gas limit 21,000 against a block gas limit
\* of 30,000; the first succeeded, the second failed GasLimitReached
C2_Witness ==
    /\ pc = "done"
    /\ ret.returned
    /\ ret.err = ErrGasLimitReached
    /\ ret.receipts = << >>
    /\ ret.usedGas = 0
    /\ blockGasLimit = 30000
    /\ msg.gas = 21000
    /\ Len(receipts) = 1
    /\ receipts[1].gasUsed = 21000
    /\ finalized = 0

\* a vm error that is not ErrInsufficientBalance
Reverted == vmerr # NoErr /\ vmerr # ErrInsufficientBalance

\* C3: execution reverts do not abort. After the EVM returned an error other
\* than insufficient balance, the refund runs, then the fee payment;
\* TransitionDb returns failed = true, gas used > 0 and no error; a receipt
\* with failure status is appended and Process goes on with the loop, which
\* at the end of the block finalizes and returns the receipts without error.
C3_RevertDoesNotAbort ==
    [][ /\ (pc = "executed" /\ Reverted =>
              /\ pc' = "payFee"
              /\ gp' = AddGas(gp, st_gas')
              /\ balance' = [balance EXCEPT
                                ![msg.from] = @ + st_gas' * msg.gasPrice])
        /\ (pc = "payFee" /\ Reverted =>
              /\ pc' = "receipt"
              /\ err' = NoErr
              /\ tdb'.failed
              /\ tdb'.usedGas > 0
              /\ balance' = [balance EXCEPT
                                ![coinbase] = @ + tdb'.usedGas * msg.gasPrice])
        /\ (pc = "receipt" /\ Reverted =>
              /\ pc' = "loop"
              /\ err' = NoErr
              /\ i' = i + 1
              /\ Len(receipts') = Len(receipts) + 1
              /\ receipts'[Len(receipts')].failed
              /\ receipts'[Len(receipts')].gasUsed > 0
              /\ SubSeq(receipts', 1, Len(receipts)) = receipts)
        /\ (pc = "loop" /\ pc' = "done" =>
              /\ ret'.err = NoErr
              /\ ret'.receipts = receipts
              /\ finalized' = 1) ]_vars

\* scenario C: a contract creation whose create call failed with a general
\* execution error has a failure receipt with gas used, a second transaction
\* was applied after it, and the block was accepted
C3_Witness ==
    /\ pc = "done"
    /\ ret.err = NoErr
    /\ Len(ret.receipts) = 2
    /\ ret.receipts[1].failed
    /\ ret.receipts[1].gasUsed > 0
    /\ ret.receipts[1].contractAddress # ZeroAddress
    /\ finalized = 1

\* C4 as stated: when the Executor reported insufficient balance,
\* TransitionDb returned gas used 0 and failed = true with the error.
C4_Original ==
    (pc = "reject" /\ err = ErrInsufficientBalance) =>
        (tdb.usedGas = 0 /\ tdb.failed = TRUE)

\* C4, amended: when the Executor reports insufficient balance, TransitionDb
\* returns at once with gas used 0, failed = false and that error; no refund
\* and no fee is paid (balances, nonces, the GasPool and the gas counters stay
\* as the Executor left them), and the error rejects the block.
C4_InsufficientBalanceHardStop ==
    [][ /\ (pc = "executed" /\ vmerr = ErrInsufficientBalance =>
              /\ pc' = "reject"
              /\ err' = ErrInsufficientBalance
              /\ tdb' = [usedGas |-> 0, failed |-> FALSE]
              /\ UNCHANGED <<balance, nonce, gp, st_gas, st_initialGas,
                             receipts, usedGas>>)
        /\ (pc = "reject" /\ err = ErrInsufficientBalance =>
              /\ pc' = "done"
              /\ ret'.err = ErrInsufficientBalance
              /\ ret'.receipts = << >>
              /\ ret'.usedGas = 0
              /\ UNCHANGED <<balance, nonce, gp>>) ]_vars

\* the block was rejected for insufficient balance of a value transfer: the
\* sender stays debited the whole gas purchase and the coinbase got nothing
C4_Witness ==
    /\ pc = "done"
    /\ ret.err = ErrInsufficientBalance
    /\ vmerr = ErrInsufficientBalance
    /\ tdb = [usedGas |-> 0, failed |-> FALSE]
    /\ msg.value > balance[msg.from]
    /\ st_gas > 0
    /\ coinbase = "miner"
    /\ balance["miner"] = 0
    /\ gp = blockGasLimit - msg.gas

\* C5: nonce ordering. For a message that asks for the nonce check, preCheck
\* fails with NonceTooLow when the message nonce is below the sender's
\* account nonce, with NonceTooHigh when it is above, and goes on to the gas
\* purchase only when they are equal; on a nonce failure no balance, nonce or
\* GasPool value changes.
C5_NonceOrdering ==
    [][ (pc = "preCheck" /\ msg.checkNonce) =>
          /\ (msg.nonce < nonce[msg.from] =>
                pc' = "reject" /\ err' = ErrNonceTooLow)
          /\ (msg.nonce > nonce[msg.from] =>
                pc' = "reject" /\ err' = ErrNonceTooHigh)
          /\ (msg.nonce = nonce[msg.from] =>
                pc' = "buyGas" /\ err' = NoErr)
          /\ (pc' = "buyGas" => msg.nonce = nonce[msg.from])
          /\ UNCHANGED <<balance, nonce, gp>> ]_vars

\* a second transaction that repeats the nonce of the first was refused
C5_Witness ==
    /\ pc = "reject"
    /\ err = ErrNonceTooLow
    /\ msg.checkNonce
    /\ msg.nonce < nonce[msg.from]
    /\ i = 1

\* C6: a failed gas purchase is atomic. buyGas fails with
\* InsufficientBalanceForGas when the sender's balance is below
\* gasLimit x gasPrice, otherwise with GasLimitReached when gasLimit exceeds
\* the GasPool; in both cases the balances, the GasPool and the gas counters
\* of the transition are what they were before.
C6_BuyGasAtomic ==
    [][ pc = "buyGas" =>
          LET cost == msg.gas * msg.gasPrice
          IN  /\ (balance[msg.from] < cost =>
                    /\ pc' = "reject"
                    /\ err' = errInsufficientBalanceForGas)
              /\ (balance[msg.from] >= cost /\ msg.gas > gp =>
                    /\ pc' = "reject"
                    /\ err' = ErrGasLimitReached)
              /\ (balance[msg.from] >= cost /\ msg.gas <= gp =>
                    pc' = "intrinsic")
              /\ (pc' = "reject" =>
                    UNCHANGED <<balance, gp, st_gas, st_initialGas>>) ]_vars

\* a purchase the sender could not afford although the pool had the gas
C6_Witness ==
    /\ pc = "reject"
    /\ err = errInsufficientBalanceForGas
    /\ balance[msg.from] < msg.gas * msg.gasPrice
    /\ balance[msg.from] > 0
    /\ gp >= msg.gas
    /\ st_gas = 0
    /\ st_initialGas = 0

\* C7: refund cap. The gas refundGas adds to the gas counter is
\* min(floor(g / 2), refund counter), g being initialGas minus the gas left
\* when execution ended; it exceeds neither half of the gas used nor the
\* refund counter.
C7_RefundCap ==
    [][ (pc = "executed" /\ pc' = "payFee") =>
          LET g == st_initialGas - st_gas
              added == st_gas' - st_gas
          IN  /\ st_gas <= st_initialGas
              /\ added = Min(g \div 2, refund)
              /\ added <= g \div 2
              /\ added <= refund ]_vars

\* a call with 60,001 gas of which the EVM handed back 13,000: g = 47,001,
\* the refund counter of 40,000 is cut to 23,500
C7_Witness ==
    /\ pc = "payFee"
    /\ msg.to # NilAddr
    /\ msg.data = << >>
    /\ st_initialGas = 60001
    /\ refund = 40000
    /\ st_gas = 13000 + 23500

\* C8: fee distribution. refundGas credits the sender the gas that remains
\* after the refund times the gas price; the coinbase is then credited
\* gasUsed x gasPrice with gasUsed = initialGas - remaining gas taken after
\* the refund; that gasUsed is what TransitionDb returns and what the receipt
\* records.
C8_FeeDistribution ==
    [][ /\ (pc = "executed" /\ pc' = "payFee" =>
              balance' = [balance EXCEPT
                             ![msg.from] = @ + st_gas' * msg.gasPrice])
        /\ (pc = "payFee" =>
              /\ st_gas' = st_gas
              /\ tdb'.usedGas = st_initialGas - st_gas
              /\ balance' = [balance EXCEPT
                   ![coinbase] = @ + (st_initialGas - st_gas) * msg.gasPrice])
        /\ (pc = "receipt" =>
              receipts'[Len(receipts')].gasUsed = st_initialGas - st_gas)
      ]_vars

\* a first transaction at gas price 2 that earned a refund of 100 gas: the
\* miner holds exactly the fee
C8_Witness ==
    /\ pc = "receipt"
    /\ i = 0
    /\ coinbase = "miner"
    /\ msg.gasPrice = 2
    /\ refund = 100
    /\ st_gas >= 100
    /\ tdb.usedGas = st_initialGas - st_gas
    /\ balance["miner"] = 2 * tdb.usedGas

\* C9: intrinsic gas overflow. IntrinsicGas returns OutOfGas (and gas 0)
\* whenever the non-zero-byte cost or the zero-byte cost would carry the
\* running total beyond the largest word, and otherwise the exact sum.
C9_IntrinsicGasOverflow ==
    ig_pc = "done" =>
        IF IGAfterNonZero > MaxUint64 \/ IGExactSum > MaxUint64
        THEN ig_ret = [gas |-> 0, err |-> ErrOutOfGas]
        ELSE ig_ret = [gas |-> IGExactSum, err |-> NoErr]

\* the non-zero bytes fit and the zero bytes do not
C9_Witness ==
    /\ ig_pc = "done"
    /\ IGNonZeros > 0
    /\ IGAfterNonZero <= MaxUint64
    /\ IGExactSum > MaxUint64
    /\ ig_ret.err = ErrOutOfGas

\* C10: intrinsic gas value. Without overflow IntrinsicGas returns
\* base + nz x TxDataNonZeroGas + z x TxDataZeroGas, the base being
\* TxGasContractCreation only for a contract creation after homestead and
\* TxGas otherwise; evaluating it changes nothing but its result.
C10_IntrinsicGasValue ==
    [][ (ig_pc = "call" /\ ig_pc' = "done") =>
          LET base == IF ig_cc
                      THEN (IF ig_hs THEN TxGasContractCreation ELSE TxGas)
                      ELSE TxGas
              sum == base + IGNonZeros * TxDataNonZeroGas
                          + IGZeros * TxDataZeroGas
          IN  /\ (sum <= MaxUint64 => ig_ret' = [gas |-> sum, err |-> NoErr])
              /\ UNCHANGED <<blockVars, dbVars, procVars, stVars, ret, pc,
                             ig_data, ig_cc, ig_hs>> ]_vars

\* a contract creation before homestead with a two-byte payload
C10_Witness ==
    /\ ig_pc = "done"
    /\ ig_cc
    /\ ~ig_hs
    /\ ig_data = <<255, 0>>
    /\ ig_ret = [gas |-> TxGas + TxDataNonZeroGas + TxDataZeroGas,
                 err |-> NoErr]

\* C11: receipts and totals. The finalizer is invoked only when Process
\* returns without an error, and then exactly once, after the last
\* transaction of the block was applied. What Process then returns is one
\* receipt per transaction of the block, in the order of the transactions;
\* receipt k carries as cumulative gas the sum of the gas used by the
\* transactions up to and including k, which never decreases along the
\* receipts; and the gas total returned is the cumulative gas of the last
\* receipt (0 for an empty block).
C11_ReceiptsAndTotals ==
    /\ finalized = (IF pc = "done" /\ ret.err = NoErr THEN 1 ELSE 0)
    /\ (pc = "done" /\ ret.err = NoErr) =>
          /\ i = nTxs
          /\ Len(block) = nTxs
          /\ Len(ret.receipts) = nTxs
          /\ \A k \in 1..nTxs :
                /\ ret.receipts[k].txHash = TxHash(block[k])
                /\ ret.receipts[k].cumulativeGasUsed =
                      SumGasUsed(SubSeq(ret.receipts, 1, k))
                /\ k > 1 => ret.receipts[k - 1].cumulativeGasUsed <=
                               ret.receipts[k].cumulativeGasUsed
          /\ ret.usedGas = IF nTxs = 0
                           THEN 0
                           ELSE ret.receipts[nTxs].cumulativeGasUsed

\* a block of two transactions that differ, both applied: the second receipt
\* carries more gas than its own transaction used
C11_Witness ==
    /\ pc = "done"
    /\ ret.err = NoErr
    /\ finalized = 1
    /\ Len(ret.receipts) = 2
    /\ block[1] # block[2]
    /\ ret.receipts[2].txHash = TxHash(block[2])
    /\ ret.receipts[2].cumulativeGasUsed > ret.receipts[2].gasUsed
    /\ ret.usedGas = ret.receipts[1].gasUsed + ret.receipts[2].gasUsed

\* C12: contract-creation addressing. The receipt of an applied transaction
\* without a recipient carries as contract address the address derived from
\* the sender and the transaction nonce, and that nonce is the account nonce
\* the sender had before the transaction was applied; the receipt of a
\* transaction with a recipient carries no contract address.
C12_ContractAddress ==
    [][ pc = "receipt" =>
          /\ Len(receipts') = Len(receipts) + 1
          /\ LET r == receipts'[Len(receipts')]
             IN  IF msg.to = NilAddr
                 THEN /\ r.contractAddress =
                            CreateAddress(msg.from, msg.nonce)
                      /\ msg.nonce = nonce0[msg.from]
                 ELSE r.contractAddress = ZeroAddress ]_vars

\* a creation by alice at account nonce 0, which the creation has since
\* moved to 1, was applied
C12_Witness ==
    /\ pc = "loop"
    /\ Len(receipts) = 1
    /\ block[1].to = NilAddr
    /\ block[1].nonce = 0
    /\ receipts[1].contractAddress = CreateAddress("alice", 0)
    /\ nonce["alice"] = 1

\* the phases of a transaction that come after the purchase of its gas
AfterBuyGas ==
    \/ pc \in {"intrinsic", "dispatch", "create", "call", "executed",
               "payFee", "receipt"}
    \/ pc \in {"reject", "done"} /\ err \in {ErrOutOfGas, ErrInsufficientBalance}

\* C14: working-gas invariant. From the purchase of the gas on (after the
\* intrinsic gas is deducted, after the EVM has returned, after the refund)
\* the gas left never exceeds the gas bought, so that the gas used,
\* initialGas - gas, is computed without underflow.
C14_WorkingGas ==
    AfterBuyGas =>
        /\ st_initialGas = msg.gas
        /\ st_gas <= st_initialGas
        /\ gasUsed(st_initialGas, st_gas) = st_initialGas - st_gas

\* the refund has been added to gas the EVM handed back: the refund counter
\* stood at 40000 and was capped
C14_Witness ==
    /\ pc = "payFee"
    /\ refund = 40000
    /\ st_gas > 0
    /\ st_gas < st_initialGas
    /\ 2 * st_gas >= st_initialGas

\* the place of a phase of TransitionDb in the order of the phases: nonce
\* check, gas purchase, intrinsic gas, dispatch, EVM, refund, fee, return
PhaseRank(p) ==
    CASE p = "preCheck" -> 1
      [] p = "buyGas" -> 2
      [] p = "intrinsic" -> 3
      [] p = "dispatch" -> 4
      [] p \in {"create", "call"} -> 5
      [] p = "executed" -> 6
      [] p = "payFee" -> 7
      [] p = "receipt" -> 8
      [] OTHER -> 0

\* C15: phase ordering. A state transition passes the nonce check, the gas
\* purchase, the intrinsic-gas deduction, the dispatch to the EVM, the refund
\* and the fee payment in this order, each at most once: a phase is followed
\* by the next one or by the return of an error. When the EVM is invoked the
\* sender has been debited gasLimit * gasPrice and the EVM has not run for
\* this transaction; the refund step credits the sender with the remaining
\* gas and returns it to the pool, and only the step after it credits the
\* fee recipient, who was credited nothing for this transaction until then.
C15_PhaseOrdering ==
    [][ /\ PhaseRank(pc) \in 1..7 =>
              \/ PhaseRank(pc') = PhaseRank(pc) + 1
              \/ pc' = "reject"
        /\ PhaseRank(pc') = 1 => pc = "loop"
        /\ pc \in {"create", "call"} =>
              /\ balance[msg.from] =
                    bal0[msg.from] - msg.gas * msg.gasPrice
              /\ evmCalls = 0
              /\ evmCalls' = 1
        /\ (PhaseRank(pc) \in 1..7 /\ coinbase = "miner") =>
              balance["miner"] = bal0["miner"]
        /\ (pc = "executed" /\ pc' = "payFee") =>
              /\ balance' = [balance EXCEPT
                                ![msg.from] = @ + st_gas' * msg.gasPrice]
              /\ gp' = gp + st_gas'
        /\ pc = "payFee" =>
              /\ pc' = "receipt"
              /\ gp' = gp
              /\ balance' =
                    [balance EXCEPT
                        ![coinbase] = @ + (st_initialGas - st_gas) * msg.gasPrice]
      ]_vars

\* a transaction through all its phases: the EVM ran once, gas was left and
\* handed back to the sender and the pool, then the miner got the fee
C15_Witness ==
    /\ pc = "receipt"
    /\ evmCalls = 1
    /\ st_gas > 0
    /\ coinbase = "miner"
    /\ gp = gp0 - msg.gas + st_gas
    /\ balance["miner"] = bal0["miner"] + tdb.usedGas * msg.gasPrice
    /\ balance["miner"] > bal0["miner"]

\* the intrinsic gas of the message in hand as an unbounded number, counted
\* apart from IntrinsicGas
MsgZeros == Len(SelectSeq(msg.data, IsZeroByte))
MsgIntrinsic ==
    (IF msg.to = NilAddr /\ homestead THEN TxGasContractCreation ELSE TxGas)
    + (Len(msg.data) - MsgZeros) * TxDataNonZeroGas
    + MsgZeros * TxDataZeroGas

\* C16: an intrinsic-gas failure precedes execution. When the gas limit of
\* the message is below its intrinsic gas, which includes every case where
\* the intrinsic gas does not fit a word, the transition fails with OutOfGas
\* and reports zero gas used; up to the return of that error by Process the
\* EVM has not run for the transaction and no nonce has moved.
C16_IntrinsicGasFailure ==
    [][ /\ (pc = "intrinsic" /\ MsgIntrinsic > msg.gas) =>
              /\ pc' = "reject"
              /\ err' = ErrOutOfGas
              /\ tdb'.usedGas = 0
              /\ evmCalls' = 0
              /\ nonce' = nonce0
        /\ (pc = "reject" /\ err = ErrOutOfGas) =>
              /\ MsgIntrinsic > msg.gas
              /\ evmCalls = 0
              /\ nonce = nonce0
              /\ pc' = "done"
              /\ ret'.err = ErrOutOfGas
              /\ ret'.usedGas = 0
              /\ evmCalls' = 0
              /\ nonce' = nonce0 ]_vars

\* the payload whose intrinsic gas does not fit a word: OutOfGas, no EVM run,
\* the nonce of alice where it was
C16_Witness ==
    /\ pc = "done"
    /\ ret.err = ErrOutOfGas
    /\ msg.data = OverflowPayload
    /\ MsgIntrinsic > MaxUint64
    /\ evmCalls = 0
    /\ nonce = nonce0
    /\ tdb.usedGas = 0

\* C17: nonce advance and replay on the call path. For a message with a
\* recipient that has passed the nonce check and the intrinsic-gas deduction,
\* the dispatch adds exactly 1 to the nonce of the sender before the EVM runs
\* the call, and the nonce stays there through the rest of the transition,
\* also when the call reverts. A nonce-checked message with a recipient that
\* is applied again after its receipt was made fails the nonce check with
\* NonceTooLow; and two calls of one sender applied one after the other
\* carry consecutive nonces.
C17_NonceAdvance ==
    [][ /\ (pc = "dispatch" /\ msg.to # NilAddr) =>
              /\ pc' = "call"
              /\ nonce' = [nonce EXCEPT ![msg.from] = nonce0[msg.from] + 1]
              /\ evmCalls' = 0
        /\ (msg.to # NilAddr /\
            pc \in {"call", "executed", "payFee", "receipt"}) =>
              /\ nonce[msg.from] = nonce0[msg.from] + 1
              /\ nonce' = nonce
        /\ (pc = "preCheck" /\ msg.to # NilAddr /\ msg.checkNonce /\
            \E k \in 1..Len(receipts) : receipts[k].txHash = TxHash(msg)) =>
              /\ pc' = "reject"
              /\ err' = ErrNonceTooLow
        /\ \A k \in 1..(Len(receipts) - 1) :
              (block[k].to # NilAddr /\ block[k + 1].to # NilAddr /\
               block[k].from = block[k + 1].from) =>
                 block[k + 1].nonce = block[k].nonce + 1 ]_vars

\* a call that reverted and left the nonce of its sender incremented is
\* applied a second time: NonceTooLow
C17_Witness ==
    /\ pc = "reject"
    /\ err = ErrNonceTooLow
    /\ Len(receipts) = 1
    /\ receipts[1].failed
    /\ receipts[1].txHash = TxHash(msg)
    /\ msg = block[1]
    /\ msg.to # NilAddr
    /\ nonce[msg.from] = msg.nonce + 1

\* the error the message in hand must fail with, from the state it was
\* applied to: the first of the four checks that does not pass
ExpectedError ==
    IF msg.checkNonce /\ nonce0[msg.from] < msg.nonce THEN ErrNonceTooHigh
    ELSE IF msg.checkNonce /\ nonce0[msg.from] > msg.nonce THEN ErrNonceTooLow
    ELSE IF bal0[msg.from] < msg.gas * msg.gasPrice
         THEN errInsufficientBalanceForGas
    ELSE IF gp0 < msg.gas THEN ErrGasLimitReached
    ELSE IF msg.gas < MsgIntrinsic THEN ErrOutOfGas
    ELSE NoErr

\* C18: error precedence. A message that fails before the EVM fails with
\* exactly one error, that of the first check it does not pass, the checks
\* being in this order: the nonce (when the nonce check is asked for), the
\* balance for the gas, the gas of the pool, the intrinsic gas. A message
\* that gets to the EVM has passed all four. A failure of one of the first
\* three leaves the balances and the pool as they were.
C18_ErrorPrecedence ==
    /\ (pc \in {"reject", "done"} /\
        err \in {ErrNonceTooHigh, ErrNonceTooLow,
                 errInsufficientBalanceForGas, ErrGasLimitReached,
                 ErrOutOfGas}) =>
          /\ err = ExpectedError
          /\ err # ErrOutOfGas => gp = gp0 /\ balance = bal0
    /\ (PhaseRank(pc) \in 4..8 \/
        (pc \in {"reject", "done"} /\ err = ErrInsufficientBalance)) =>
          ExpectedError = NoErr

\* the sender cannot pay for the gas and the gas limit exceeds what the pool
\* holds: InsufficientBalanceForGas, the pool untouched
C18_Witness ==
    /\ pc = "reject"
    /\ err = errInsufficientBalanceForGas
    /\ bal0[msg.from] < msg.gas * msg.gasPrice
    /\ msg.gas > gp0
    /\ gp = gp0
    /\ gp = blockGasLimit

\* C19: an error after the gas purchase is not rolled back. When the
\* transition fails with OutOfGas on the intrinsic gas, or with the
\* insufficient balance the EVM reports, then up to and after the return of
\* Process the sender stays debited gasLimit * gasPrice, the pool stays
\* reduced by gasLimit, and nobody is credited, neither the sender nor the
\* fee recipient; on the call path with the EVM's insufficient balance the
\* nonce of the sender stays incremented, and otherwise no nonce has moved.
C19_NoRollback ==
    (pc \in {"reject", "done"} /\
     err \in {ErrOutOfGas, ErrInsufficientBalance}) =>
        /\ balance = [bal0 EXCEPT ![msg.from] = @ - msg.gas * msg.gasPrice]
        /\ gp = gp0 - msg.gas
        /\ nonce = IF err = ErrInsufficientBalance /\ msg.to # NilAddr
                   THEN [nonce0 EXCEPT ![msg.from] = @ + 1]
                   ELSE nonce0

\* a call of value 7 by a sender left with less than 7 after it paid for the
\* gas: Process has returned the error, the gas is gone, the nonce has moved
C19_Witness ==
    /\ pc = "done"
    /\ ret.err = ErrInsufficientBalance
    /\ msg.to # NilAddr
    /\ msg.gas * msg.gasPrice > 0
    /\ balance[msg.from] = bal0[msg.from] - msg.gas * msg.gasPrice
    /\ gp = gp0 - msg.gas
    /\ nonce[msg.from] = nonce0[msg.from] + 1

\* all the balance there is
TotalBalance(b) == b["alice"] + b["bob"] + b["miner"] + b["contract"]

\* C20: gas-payment conservation. For every transaction that is settled,
\* reverted ones included, what the sender paid for the gas, gasLimit *
\* gasPrice, is what the sender got back for the remaining gas plus what the
\* fee recipient got for the gas used; the gas accounting neither makes nor
\* destroys balance.
C20_GasPaymentConservation ==
    pc = "receipt" =>
        /\ msg.gas * msg.gasPrice =
              st_gas * msg.gasPrice + tdb.usedGas * msg.gasPrice
        /\ tdb.usedGas + st_gas = msg.gas
        /\ TotalBalance(balance) = TotalBalance(bal0)

\* a reverted transaction at gas price 2 that left gas: settled
C20_Witness ==
    /\ pc = "receipt"
    /\ tdb.failed
    /\ vmerr = ErrExecutionReverted
    /\ msg.gasPrice = 2
    /\ st_gas > 0
    /\ tdb.usedGas > 0
    /\ coinbase = "miner"
    /\ balance["miner"] = bal0["miner"] + tdb.usedGas * 2
    /\ balance[msg.from] = bal0[msg.from] - tdb.usedGas * 2

====
